---- MODULE Spec2Model ----
(***************************************************************************)
(* ChatSphere: room / membership / message persistence (DatabaseStorage),  *)
(* the REST route handlers in front of it, and the message queries that    *)
(* back the polling contract.                                              *)
(*                                                                         *)
(* Time is counted in microseconds, the resolution of the PostgreSQL       *)
(* timestamp columns filled by now(); a JavaScript Date holds whole        *)
(* milliseconds.                                                           *)
(***************************************************************************)
EXTENDS Integers, Sequences, FiniteSets, TLC

(* ------------------------------ bounds -------------------------------- *)
MaxRooms == 2
MaxMemberRows == 3
MaxNow == 1000
MaxBulk == 52
MaxNewMessages == 2
MaxServerRows == 4
MaxPolls == 2
MaxSends == 2

(* ------------------------- program constants -------------------------- *)
DefaultLimit == 50
DefaultOffset == 0
LatestLimit == 50
MicrosPerMilli == 1000
MaxNameLength == 100

(* ------------------------------ inputs -------------------------------- *)
UserIds == {"A", "B"}
RoomNames == {"general"}
Contents == {"hi", "there"}
\* a field that a request body does not have
Undefined == "undefined"
\* a name of MaxNameLength + 1 characters
LongName == "aaaaaaaaaaaaaaaaaaaaaaaaaaaaaaaaaaaaaaaaaaaaaaaaaaaaaaaaaaaaaaaaaaaaaaaaaaaaaaaaaaaaaaaaaaaaaaaaaaaaa"
RoomNameInputs == RoomNames \cup {Undefined, LongName}
\* request bodies: the fields the handlers and schemas look at
RoomBodies == [name : RoomNameInputs, createdBy : UserIds \cup {Undefined}]
MessageBodies == [content : Contents \cup {Undefined},
                  userId : UserIds \cup {Undefined}]
\* the routes of the server
Routes == {"GET /api/auth/user", "GET /api/rooms", "POST /api/rooms",
           "POST join", "POST leave", "GET messages", "POST messages",
           "GET members", "GET /api/rooms/all"}
\* text of a path or query parameter, as a sequence of characters;
\* the empty sequence is an absent query parameter
RoomIdParams == {<<"1">>, <<"2">>, <<"x">>, <<"1", "x">>}
\* the same, and the id of a room that was never created
SendRoomIdParams == RoomIdParams \cup {<<"3">>}
LimitParams == {<<>>, <<"0">>, <<"1">>, <<"2">>, <<"x">>, <<"2", "x">>}
OffsetParams == {<<>>, <<"1">>, <<"x">>}
\* the since query parameter: absent, or the ISO text of a millisecond
\* instant, named by that instant in microseconds
NoSince == -1
SinceParams == {NoSince, 0, 1000, 2000, 3000}
\* texts typed into the message input, as sequences of characters
TypedTexts == {<<>>, <<" ">>, <<"h", "i">>, <<" ", "h", "i", " ">>,
               <<"a", " ", "b">>, <<" ", " ", "a">>}
\* the instants the clock is observed at, as offsets from the start: the
\* first two microseconds of every millisecond
ClockOffsets == {o \in 0..MaxNow : o % MicrosPerMilli <= 1}

\* the result of parseInt when no digits can be read
NaN == -1

VARIABLES
    users,          \* users table: ids of the rows
    sessions,       \* users holding an authenticated session
    rooms,          \* rooms table: rooms[i] is the row with id i
    roomMembers,    \* room_members table: set of rows [id, userId, roomId]
    nextMemberId,   \* serial sequence of room_members.id
    messages,       \* messages table: messages[i] is the row with id i
    now,            \* database clock, microseconds
    pc,             \* per user: position of the request being handled
    req,            \* per user: locals of the request being handled
    last,           \* what the last step did and answered
    client          \* the ChatArea component of one browser

vars == <<users, sessions, rooms, roomMembers, nextMemberId, messages,
          now, pc, req, last, client>>

(* ------------------------------ helpers ------------------------------- *)
Min(a, b) == IF a <= b THEN a ELSE b

Reverse(s) == [i \in 1..Len(s) |-> s[Len(s) + 1 - i]]

DigitValue == [c \in {"0", "1", "2", "3"} |->
                 CASE c = "0" -> 0 [] c = "1" -> 1 [] c = "2" -> 2 [] c = "3" -> 3]

IsDigit(c) == c \in DOMAIN DigitValue

RECURSIVE ParsePrefix(_, _, _)
\* reads digits of s from position i on, acc is the value read so far
ParsePrefix(s, i, acc) ==
    IF i > Len(s) \/ ~IsDigit(s[i]) THEN acc
    ELSE ParsePrefix(s, i + 1, 10 * acc + DigitValue[s[i]])

\* parseInt: the number written by the leading digits, NaN when none
parseInt(s) ==
    IF Len(s) = 0 \/ ~IsDigit(s[1]) THEN NaN ELSE ParsePrefix(s, 1, 0)

isNaN(n) == n = NaN

\* JavaScript  a || b  on numbers: NaN and 0 are falsy
OrElse(a, b) == IF isNaN(a) \/ a = 0 THEN b ELSE a

\* a timestamp column value read into a JavaScript Date
DateOf(ts) == ts - (ts % MicrosPerMilli)

NoReq == [roomId |-> 0, msgId |-> 0, content |-> "", startedAt |-> 0]

Step(op, user, roomId, status, args, body) ==
    [op |-> op, user |-> user, roomId |-> roomId, status |-> status,
     args |-> args, body |-> body]

NoArgs == [none |-> TRUE]

\* ChatArea with no room open: currentRoom, the data of the messages query
\* of currentRoom and whether a fetch of it is under way, lastMessageTime
\* (NoSince is null), the poll requests awaiting their response, each with
\* the room and the since value of its URL, and the rooms whose messages
\* query has been mounted; of MessageInput inside it: the message state,
\* sendMessageMutation.isPending, and the send requests awaiting their
\* response, each with the room of its URL and the content of its body
NoClient == [room |-> 0, data |-> <<>>, fetching |-> FALSE,
             lastMessageTime |-> NoSince, polls |-> <<>>, visited |-> {},
             message |-> <<>>, pending |-> FALSE, sends |-> <<>>]

(* ---------------------- authentication, schemas ---------------------- *)
\* the isAuthenticated middleware lets a request with a session through
isAuthenticated(u) == u \in sessions

\* insertRoomSchema.parse and the rooms insert take the data: name is
\* required and fits varchar(MaxNameLength), createdBy is required
RoomDataAccepted(data) ==
    /\ data.name # Undefined
    /\ Len(data.name) <= MaxNameLength
    /\ data.createdBy # Undefined

\* insertMessageSchema.parse takes the data: content and userId are required
MessageDataAccepted(data) ==
    /\ data.content # Undefined
    /\ data.userId # Undefined

(* ------------------------- storage: rooms ----------------------------- *)
\* getRoomById
getRoomById(id) == IF id \in DOMAIN rooms THEN {rooms[id]} ELSE {}

\* room_members has one unique constraint, the primary key on id
MemberConflict(row) == \E m \in roomMembers : m.id = row.id

\* joinRoom: insert ... on conflict do nothing
joinRoom(userId, roomId) ==
    LET row == [id |-> nextMemberId, userId |-> userId, roomId |-> roomId]
    IN  /\ roomMembers' = IF MemberConflict(row) THEN roomMembers
                          ELSE roomMembers \cup {row}
        /\ nextMemberId' = nextMemberId + 1

\* variant of leaveRoom: the roomId condition is missing from the delete
leaveRoomEveryRoom(userId, roomId) ==
    /\ roomMembers' = {m \in roomMembers : m.userId # userId}
    /\ UNCHANGED nextMemberId

\* leaveRoom: delete where userId and roomId match
leaveRoom(userId, roomId) ==
    /\ roomMembers' = {m \in roomMembers :
                          ~(m.userId = userId /\ m.roomId = roomId)}
    /\ UNCHANGED nextMemberId

\* the membership rows of a (user, room) pair
MemberRows(userId, roomId) ==
    {m \in roomMembers : m.userId = userId /\ m.roomId = roomId}

\* getUserRooms: one result row per membership row that joins a room;
\* the result is given as: room id |-> number of times the room is returned
getUserRooms(userId) ==
    LET joined == {m \in roomMembers :
                      m.userId = userId /\ m.roomId \in DOMAIN rooms}
    IN  [r \in {m.roomId : m \in joined} |->
            Cardinality({m \in joined : m.roomId = r})]

\* getRooms: one result row per room (rooms left join users left join
\* room_members, grouped by room and creator), memberCount is
\* count(room_members.id) of the group; given as: room id |-> row
getRooms ==
    [r \in DOMAIN rooms |->
        [id |-> r, name |-> rooms[r].name, createdBy |-> rooms[r].createdBy,
         creator |-> IF rooms[r].createdBy \in users
                     THEN rooms[r].createdBy ELSE "",
         memberCount |-> Cardinality({m \in roomMembers : m.roomId = r})]]

\* getRoomMembers: one result row per membership row of the room that
\* joins a user; given as: user id |-> number of times the user is returned
getRoomMembers(roomId) ==
    LET joined == {m \in roomMembers :
                      m.roomId = roomId /\ m.userId \in users}
    IN  [u \in {m.userId : m \in joined} |->
            Cardinality({m \in joined : m.userId = u})]

(* ------------------------ storage: messages --------------------------- *)
\* from messages inner join users where messages.roomId = roomId:
\* the rows in insertion order
JoinedMessages(roomId) ==
    SelectSeq(messages, LAMBDA m : m.roomId = roomId /\ m.userId \in users)

\* a message row as selected: createdAt becomes a Date
Selected(m) == [m EXCEPT !.createdAt = DateOf(m.createdAt)]

\* variant of DescOrders: the order is ascending, desc() is missing
AscOrders(rows) == {SortSeq(rows, LAMBDA x, y : x.id < y.id)}

\* order by createdAt desc: every arrangement of the rows with the stored
\* createdAt never increasing; rows with equal createdAt come in any order
DescOrders(rows) ==
    LET b == SortSeq(rows, LAMBDA x, y :
                 \/ x.createdAt > y.createdAt
                 \/ (x.createdAt = y.createdAt /\ x.id < y.id))
        N == Len(b)
        tied == {p \in 1..N :
                    \/ (p > 1 /\ b[p - 1].createdAt = b[p].createdAt)
                    \/ (p < N /\ b[p + 1].createdAt = b[p].createdAt)}
        perms == {f \in [tied -> tied] :
                    /\ \A p, q \in tied : p # q => f[p] # f[q]
                    /\ \A p \in tied : b[f[p]].createdAt = b[p].createdAt}
    IN  {[p \in 1..N |-> IF p \in tied THEN b[f[p]] ELSE b[p]] : f \in perms}

\* variant of Page: the limit is not applied
PageWithoutLimit(s, limit, offset) ==
    IF offset >= Len(s) THEN <<>>
    ELSE SubSeq(s, offset + 1, Len(s))

\* limit / offset applied to an ordered list of rows
Page(s, limit, offset) ==
    IF offset >= Len(s) THEN <<>>
    ELSE SubSeq(s, offset + 1, Min(Len(s), offset + limit))

\* variant of MapReverse: the final reverse() is missing
MapWithoutReverse(page) == [k \in DOMAIN page |-> Selected(page[k])]

\* msgs.map(m => ({ ...m.message, user: m.user })).reverse()
MapReverse(page) == Reverse([k \in DOMAIN page |-> Selected(page[k])])

\* getMessages: the possible results
getMessages(roomId, limit, offset) ==
    {MapReverse(Page(s, limit, offset)) :
        s \in DescOrders(JoinedMessages(roomId))}

\* variant of getLatestMessages: the query without since is not limited
getLatestMessagesUnlimited(roomId, since) ==
    LET rows == IF since # NoSince
                THEN SelectSeq(JoinedMessages(roomId),
                               LAMBDA m : m.createdAt > since)
                ELSE JoinedMessages(roomId)
    IN  {MapReverse(IF since # NoSince THEN Page(s, LatestLimit, 0) ELSE s) :
            s \in DescOrders(rows)}

\* getLatestMessages: the possible results; since = NoSince is undefined
getLatestMessages(roomId, since) ==
    LET rows == IF since # NoSince
                THEN SelectSeq(JoinedMessages(roomId),
                               LAMBDA m : m.createdAt > since)
                ELSE JoinedMessages(roomId)
    IN  {MapReverse(Page(s, LatestLimit, 0)) : s \in DescOrders(rows)}

\* getLatestMessages with a since, as it answered when the messages table
\* held its first n rows (rows are only ever added, in id order)
LatestAsOf(n, roomId, since) ==
    LET rows == SelectSeq(JoinedMessages(roomId),
                          LAMBDA m : m.id <= n /\ m.createdAt > since)
    IN  {MapReverse(Page(s, LatestLimit, 0)) : s \in DescOrders(rows)}

\* variant of createMessage: an upsert, the user's earlier message in the
\* room is overwritten when there is one
createMessageUpsert(content, userId, roomId, startedAt) ==
    LET mine == {i \in DOMAIN messages : /\ messages[i].userId = userId
                                         /\ messages[i].roomId = roomId}
    IN  IF mine = {}
        THEN messages' = Append(messages,
                                [id |-> Len(messages) + 1,
                                 content |-> content, userId |-> userId,
                                 roomId |-> roomId, createdAt |-> startedAt])
        ELSE messages' = [i \in DOMAIN messages |->
                             IF i \in mine
                             THEN [messages[i] EXCEPT !.content = content,
                                                      !.createdAt = startedAt]
                             ELSE messages[i]]

\* createMessage: insert one row, id from the serial sequence at the moment
\* the row is inserted, createdAt from the column default now(), which is
\* the instant startedAt at which the statement's transaction started
createMessage(content, userId, roomId, startedAt) ==
    messages' = Append(messages,
                       [id |-> Len(messages) + 1, content |-> content,
                        userId |-> userId, roomId |-> roomId,
                        createdAt |-> startedAt])

(* ------------------------------ Init ---------------------------------- *)
Init ==
    /\ users = {}
    /\ sessions = {}
    /\ rooms = <<>>
    /\ roomMembers = {}
    /\ nextMemberId = 1
    /\ messages = <<>>
    /\ now = 0
    /\ pc = [u \in UserIds |-> "idle"]
    /\ req = [u \in UserIds |-> NoReq]
    /\ last = Step("init", "", 0, 0, NoArgs, <<>>)
    /\ client = NoClient

\* a database in which both users have logged in, A has created room 1
\* and B room 2, and n messages have been sent, all but the third to room 1
BulkContent == "old"
BulkSizes == {n \in 0..MaxBulk : n <= 3 \/ n >= MaxBulk - 3}
BulkPatterns == {"ms", "half", "tie"}
BulkTime(i, pat) ==
    CASE pat = "ms" -> MicrosPerMilli * i
      [] pat = "half" -> (MicrosPerMilli \div 2) * i
      [] pat = "tie" -> IF i = 1 THEN MicrosPerMilli * 2 ELSE MicrosPerMilli * i
BulkMessage(i, pat) ==
    [id |-> i, content |-> BulkContent,
     userId |-> IF i % 2 = 1 THEN "A" ELSE "B",
     roomId |-> IF i = 3 THEN 2 ELSE 1,
     createdAt |-> BulkTime(i, pat)]

InitBulk(sizes, patterns) ==
    /\ users = UserIds
    /\ sessions = UserIds
    /\ rooms = <<[id |-> 1, name |-> "general", createdBy |-> "A"],
                 [id |-> 2, name |-> "general", createdBy |-> "B"]>>
    /\ roomMembers = {[id |-> 1, userId |-> "A", roomId |-> 1],
                      [id |-> 2, userId |-> "B", roomId |-> 2]}
    /\ nextMemberId = 3
    /\ \E n \in sizes, pat \in patterns :
          /\ messages = [i \in 1..n |-> BulkMessage(i, pat)]
          /\ now = IF n = 0 THEN 0 ELSE BulkTime(n, pat)
    /\ pc = [u \in UserIds |-> "idle"]
    /\ req = [u \in UserIds |-> NoReq]
    /\ last = Step("init", "", 0, 0, NoArgs, <<>>)

InitQuery == InitBulk(BulkSizes, BulkPatterns) /\ client = NoClient

InitSend == InitBulk({0, MaxBulk}, {"half"}) /\ client = NoClient

\* createdAt of the newest message present at start
LastBulkTime ==
    LET old == {i \in DOMAIN messages : messages[i].content = BulkContent}
    IN  IF old = {} THEN 0
        ELSE CHOOSE t \in {messages[i].createdAt : i \in old} :
                 \A i \in old : messages[i].createdAt <= t

(* --------------------------- environment ------------------------------ *)
\* the database clock advances
Tick ==
    /\ \E o \in ClockOffsets : LastBulkTime + o > now /\ now' = LastBulkTime + o
    /\ last' = Step("tick", "", 0, 0, NoArgs, <<>>)
    /\ UNCHANGED <<users, sessions, rooms, roomMembers, nextMemberId,
                   messages, pc, req>>
    /\ UNCHANGED client

\* login through the authentication provider: the user row is upserted and
\* a session is established
Login(u) ==
    /\ u \notin sessions
    /\ users' = users \cup {u}
    /\ sessions' = sessions \cup {u}
    /\ last' = Step("login", u, 0, 0, NoArgs, <<>>)
    /\ UNCHANGED <<rooms, roomMembers, nextMemberId, messages, now,
                   pc, req>>
    /\ UNCHANGED client

\* a request without a session: the middleware answers 401 and the handler
\* is not run
Unauthorized(u, route) ==
    /\ ~isAuthenticated(u) /\ pc[u] = "idle"
    /\ last' = Step(route, u, 0, 401, NoArgs, <<>>)
    /\ UNCHANGED <<users, sessions, rooms, roomMembers, nextMemberId,
                   messages, now, pc, req>>
    /\ UNCHANGED client

(* ------------------------ POST /api/rooms ----------------------------- *)
\* the handler up to createRoom's first insert, given the data that is
\* parsed: an exception ends the request with 500, else the room row is
\* inserted
CreateRoomWith(u, body, roomData) ==
    /\ isAuthenticated(u) /\ pc[u] = "idle"
    /\ \/ /\ ~RoomDataAccepted(roomData)
          /\ last' = Step("POST /api/rooms", u, 0, 500,
                          [invalid |-> body.name], <<>>)
          /\ UNCHANGED <<rooms, pc, req>>
       \/ /\ RoomDataAccepted(roomData)
          /\ Len(rooms) < MaxRooms
          /\ rooms' = Append(rooms, [id |-> Len(rooms) + 1,
                                     name |-> roomData.name,
                                     createdBy |-> roomData.createdBy])
          /\ pc' = [pc EXCEPT ![u] = "createRoom_join"]
          /\ req' = [req EXCEPT ![u] =
                        [NoReq EXCEPT !.roomId = Len(rooms) + 1]]
          /\ last' = Step("createRoom_insert", u, Len(rooms) + 1, 0,
                          NoArgs, <<>>)
    /\ UNCHANGED <<users, sessions, roomMembers, nextMemberId, messages,
                   now>>
    /\ UNCHANGED client

\* variant of CreateRoomInsert: the body is spread after createdBy, so a
\* createdBy in the body replaces the session's user id
CreateRoomInsertBodyWins(u, body) ==
    CreateRoomWith(u, body,
                   [name |-> body.name,
                    createdBy |-> IF body.createdBy # Undefined
                                  THEN body.createdBy ELSE u])

\* insertRoomSchema.parse({...req.body, createdBy: userId}), then
\* createRoom's first insert: the room row
CreateRoomInsert(u, body) ==
    CreateRoomWith(u, body, [name |-> body.name, createdBy |-> u])

\* the room insert throws: the handler answers 500
CreateRoomInsertFails(u) ==
    /\ isAuthenticated(u) /\ pc[u] = "idle"
    /\ last' = Step("POST /api/rooms", u, 0, 500, NoArgs, <<>>)
    /\ UNCHANGED <<users, sessions, rooms, roomMembers, nextMemberId,
                   messages, now, pc, req>>
    /\ UNCHANGED client

\* variant of CreateRoomJoin: the room is returned without adding the creator
CreateRoomWithoutJoin(u) ==
    /\ pc[u] = "createRoom_join"
    /\ pc' = [pc EXCEPT ![u] = "idle"]
    /\ req' = [req EXCEPT ![u] = NoReq]
    /\ last' = Step("POST /api/rooms", u, req[u].roomId, 201, NoArgs, <<>>)
    /\ UNCHANGED <<users, sessions, rooms, roomMembers, nextMemberId,
                   messages, now>>
    /\ UNCHANGED client

\* createRoom, second insert: joinRoom for the creator, then 201
CreateRoomJoin(u) ==
    /\ pc[u] = "createRoom_join"
    /\ joinRoom(rooms[req[u].roomId].createdBy, req[u].roomId)
    /\ pc' = [pc EXCEPT ![u] = "idle"]
    /\ req' = [req EXCEPT ![u] = NoReq]
    /\ last' = Step("POST /api/rooms", u, req[u].roomId, 201, NoArgs, <<>>)
    /\ UNCHANGED <<users, sessions, rooms, messages, now>>
    /\ UNCHANGED client

\* the membership insert throws, or the server stops before it: the
\* request ends (500 when the handler still runs) and nothing is undone
CreateRoomJoinFails(u) ==
    /\ pc[u] = "createRoom_join"
    /\ pc' = [pc EXCEPT ![u] = "idle"]
    /\ req' = [req EXCEPT ![u] = NoReq]
    /\ last' = Step("POST /api/rooms", u, req[u].roomId, 500, NoArgs, <<>>)
    /\ UNCHANGED <<users, sessions, rooms, roomMembers, nextMemberId,
                   messages, now>>
    /\ UNCHANGED client

(* ------------------- POST /api/rooms/:roomId/join --------------------- *)
\* variant of JoinRoute: the room is not looked up before joinRoom
JoinRouteWithoutLookup(u, param) ==
    /\ isAuthenticated(u) /\ pc[u] = "idle"
    /\ LET roomId == parseInt(param)
       IN  \/ /\ isNaN(roomId)
              /\ last' = Step("POST join", u, roomId, 400,
                              [param |-> param], <<>>)
              /\ UNCHANGED <<roomMembers, nextMemberId>>
           \/ /\ ~isNaN(roomId)
              /\ nextMemberId <= MaxMemberRows
              /\ joinRoom(u, roomId)
              /\ last' = Step("POST join", u, roomId, 200,
                              [param |-> param], <<>>)
    /\ UNCHANGED <<users, sessions, rooms, messages, now, pc, req>>
    /\ UNCHANGED client

JoinRoute(u, param) ==
    /\ isAuthenticated(u) /\ pc[u] = "idle"
    /\ LET roomId == parseInt(param)
       IN  \/ /\ isNaN(roomId)
              /\ last' = Step("POST join", u, roomId, 400,
                              [param |-> param], <<>>)
              /\ UNCHANGED <<roomMembers, nextMemberId>>
           \/ /\ ~isNaN(roomId)
              /\ getRoomById(roomId) = {}
              /\ last' = Step("POST join", u, roomId, 404,
                              [param |-> param], <<>>)
              /\ UNCHANGED <<roomMembers, nextMemberId>>
           \/ /\ ~isNaN(roomId)
              /\ getRoomById(roomId) # {}
              /\ nextMemberId <= MaxMemberRows
              /\ joinRoom(u, roomId)
              /\ last' = Step("POST join", u, roomId, 200,
                              [param |-> param], <<>>)
    /\ UNCHANGED <<users, sessions, rooms, messages, now, pc, req>>
    /\ UNCHANGED client

(* ------------------- POST /api/rooms/:roomId/leave -------------------- *)
LeaveRoute(u, param) ==
    /\ isAuthenticated(u) /\ pc[u] = "idle"
    /\ LET roomId == parseInt(param)
       IN  \/ /\ isNaN(roomId)
              /\ last' = Step("POST leave", u, roomId, 400,
                              [param |-> param], <<>>)
              /\ UNCHANGED <<roomMembers, nextMemberId>>
           \/ /\ ~isNaN(roomId)
              /\ leaveRoom(u, roomId)
              /\ last' = Step("POST leave", u, roomId, 200,
                              [param |-> param,
                               rowsBefore |->
                                   Cardinality(MemberRows(u, roomId))],
                              <<>>)
    /\ UNCHANGED <<users, sessions, rooms, messages, now, pc, req>>
    /\ UNCHANGED client

(* --------------------------- GET /api/rooms --------------------------- *)
GetUserRoomsRoute(u) ==
    /\ isAuthenticated(u) /\ pc[u] = "idle"
    /\ last' = Step("GET /api/rooms", u, 0, 200, NoArgs, getUserRooms(u))
    /\ UNCHANGED <<users, sessions, rooms, roomMembers, nextMemberId,
                   messages, now, pc, req>>
    /\ UNCHANGED client

(* ------------------------- GET /api/rooms/all ------------------------- *)
GetAllRoomsRoute(u) ==
    /\ isAuthenticated(u) /\ pc[u] = "idle"
    /\ last' = Step("GET /api/rooms/all", u, 0, 200, NoArgs, getRooms)
    /\ UNCHANGED <<users, sessions, rooms, roomMembers, nextMemberId,
                   messages, now, pc, req>>
    /\ UNCHANGED client

(* ------------------ GET /api/rooms/:roomId/members -------------------- *)
GetMembersRoute(u, param) ==
    /\ isAuthenticated(u) /\ pc[u] = "idle"
    /\ LET roomId == parseInt(param)
       IN  \/ /\ isNaN(roomId)
              /\ last' = Step("GET members", u, roomId, 400,
                              [param |-> param], <<>>)
           \/ /\ ~isNaN(roomId)
              /\ last' = Step("GET members", u, roomId, 200,
                              [param |-> param], getRoomMembers(roomId))
    /\ UNCHANGED <<users, sessions, rooms, roomMembers, nextMemberId,
                   messages, now, pc, req>>
    /\ UNCHANGED client

(* ------------------ GET /api/rooms/:roomId/messages ------------------- *)
GetMessagesRoute(u, param, limitParam, offsetParam, since) ==
    /\ isAuthenticated(u) /\ pc[u] = "idle"
    /\ LET roomId == parseInt(param)
           limit == OrElse(parseInt(limitParam), DefaultLimit)
           offset == OrElse(parseInt(offsetParam), DefaultOffset)
           args == [param |-> param, limit |-> limit, offset |-> offset,
                    since |-> since, limitParam |-> limitParam,
                    offsetParam |-> offsetParam]
       IN  \/ /\ isNaN(roomId)
              /\ last' = Step("GET messages", u, roomId, 400,
                              [param |-> param], <<>>)
           \/ /\ ~isNaN(roomId)
              /\ since # NoSince
              /\ \E res \in getLatestMessages(roomId, since) :
                    last' = Step("GET messages", u, roomId, 200, args, res)
           \/ /\ ~isNaN(roomId)
              /\ since = NoSince
              /\ \E res \in getMessages(roomId, limit, offset) :
                    last' = Step("GET messages", u, roomId, 200, args, res)
    /\ UNCHANGED <<users, sessions, rooms, roomMembers, nextMemberId,
                   messages, now, pc, req>>
    /\ UNCHANGED client

(* ------------------ POST /api/rooms/:roomId/messages ------------------ *)
\* up to and including storage.createMessage, the insert statement running
\* without any other statement in between
SendMessageInsert(u, param, body) ==
    /\ isAuthenticated(u) /\ pc[u] = "idle"
    /\ LET roomId == parseInt(param)
           messageData == [content |-> body.content, userId |-> u,
                           roomId |-> roomId]
           content == messageData.content
       IN  \/ /\ isNaN(roomId)
              /\ last' = Step("POST messages", u, roomId, 400,
                              [param |-> param], <<>>)
              /\ UNCHANGED <<messages, pc, req>>
           \/ /\ ~isNaN(roomId)
              /\ ~MessageDataAccepted(messageData)
              /\ last' = Step("POST messages", u, roomId, 500,
                              [param |-> param, invalid |-> body.content],
                              <<>>)
              /\ UNCHANGED <<messages, pc, req>>
           \/ /\ ~isNaN(roomId)
              /\ MessageDataAccepted(messageData)
              /\ createMessage(content, messageData.userId, roomId, now)
              /\ pc' = [pc EXCEPT ![u] = "sendMessage_refetch"]
              /\ req' = [req EXCEPT ![u] = [NoReq EXCEPT
                                               !.roomId = roomId,
                                               !.msgId = Len(messages) + 1]]
              /\ last' = Step("createMessage", u, roomId, 0,
                              [param |-> param, content |-> content,
                               msgId |-> Len(messages) + 1], <<>>)
    /\ UNCHANGED <<users, sessions, rooms, roomMembers, nextMemberId,
                   now>>
    /\ UNCHANGED client

\* up to the start of the insert statement of storage.createMessage: the
\* database reads its clock when the statement's transaction starts
SendMessageStart(u, param, body) ==
    /\ isAuthenticated(u) /\ pc[u] = "idle"
    /\ LET roomId == parseInt(param)
           messageData == [content |-> body.content, userId |-> u,
                           roomId |-> roomId]
           content == messageData.content
       IN  \/ /\ isNaN(roomId)
              /\ last' = Step("POST messages", u, roomId, 400,
                              [param |-> param], <<>>)
              /\ UNCHANGED <<pc, req>>
           \/ /\ ~isNaN(roomId)
              /\ ~MessageDataAccepted(messageData)
              /\ last' = Step("POST messages", u, roomId, 500,
                              [param |-> param, invalid |-> body.content],
                              <<>>)
              /\ UNCHANGED <<pc, req>>
           \/ /\ ~isNaN(roomId)
              /\ MessageDataAccepted(messageData)
              /\ pc' = [pc EXCEPT ![u] = "sendMessage_insert"]
              /\ req' = [req EXCEPT ![u] = [NoReq EXCEPT
                                               !.roomId = roomId,
                                               !.content = content,
                                               !.startedAt = now]]
              /\ last' = Step("createMessage_start", u, roomId, 0,
                              [param |-> param], <<>>)
    /\ UNCHANGED <<users, sessions, rooms, roomMembers, nextMemberId,
                   messages, now>>
    /\ UNCHANGED client

\* the insert statement of storage.createMessage stores its row
SendMessageRow(u) ==
    /\ pc[u] = "sendMessage_insert"
    /\ createMessage(req[u].content, u, req[u].roomId, req[u].startedAt)
    /\ pc' = [pc EXCEPT ![u] = "sendMessage_refetch"]
    /\ req' = [req EXCEPT ![u].msgId = Len(messages) + 1]
    /\ last' = Step("createMessage", u, req[u].roomId, 0,
                    [content |-> req[u].content,
                     msgId |-> Len(messages) + 1], <<>>)
    /\ UNCHANGED <<users, sessions, rooms, roomMembers, nextMemberId,
                   now>>
    /\ UNCHANGED client

\* storage.getMessages(roomId, 1), then 201 with messageWithUser[0] || message
SendMessageRefetch(u) ==
    /\ pc[u] = "sendMessage_refetch"
    /\ \E res \in getMessages(req[u].roomId, 1, DefaultOffset) :
          last' = Step("POST messages", u, req[u].roomId, 201,
                       [msgId |-> req[u].msgId],
                       IF Len(res) > 0 THEN <<res[1]>>
                       ELSE <<Selected(messages[req[u].msgId])>>)
    /\ pc' = [pc EXCEPT ![u] = "idle"]
    /\ req' = [req EXCEPT ![u] = NoReq]
    /\ UNCHANGED <<users, sessions, rooms, roomMembers, nextMemberId,
                   messages, now>>
    /\ UNCHANGED client

(* ------------------------- ChatArea: polling -------------------------- *)
\* the user in whose browser ChatArea runs
Viewer == "A"

\* what the query function of the messages query can return: the answer to
\* GET /api/rooms/:roomId/messages without query parameters; the query is
\* fetched when ChatArea is shown and again each time it is invalidated
QueryResults(roomId) == getMessages(roomId, DefaultLimit, DefaultOffset)

\* the messages query gets its answer: the data is replaced and the effect
\* on [messages] sets lastMessageTime to the createdAt of the last message
\* of a list that is not empty
QueryRespond ==
    /\ client.room # 0 /\ client.fetching
    /\ isAuthenticated(Viewer)
    /\ \E res \in QueryResults(client.room) :
          client' = [client EXCEPT
                        !.data = res,
                        !.fetching = FALSE,
                        !.lastMessageTime =
                            IF Len(res) > 0 THEN res[Len(res)].createdAt
                            ELSE @]
    /\ last' = Step("query messages", Viewer, client.room, 200, NoArgs, <<>>)
    /\ UNCHANGED <<users, sessions, rooms, roomMembers, nextMemberId,
                   messages, now, pc, req>>

\* the interval timer runs pollForMessages: with a lastMessageTime it sends
\* GET /api/rooms/:roomId/messages?since=lastMessageTime, without one it
\* does nothing
PollTimer ==
    /\ client.room # 0
    /\ IF client.lastMessageTime # NoSince
       THEN client' = [client EXCEPT
                          !.polls = Append(@,
                              [room |-> client.room,
                               since |-> client.lastMessageTime])]
       ELSE UNCHANGED client
    /\ last' = Step("poll timer", Viewer, client.room, 0,
                    [since |-> client.lastMessageTime], <<>>)
    /\ UNCHANGED <<users, sessions, rooms, roomMembers, nextMemberId,
                   messages, now, pc, req>>

\* the sequence s without its k-th element
RemoveAt(s, k) == [i \in 1..(Len(s) - 1) |-> IF i < k THEN s[i] ELSE s[i + 1]]

\* the k-th outstanding poll gets its answer: a list that is not empty
\* invalidates the messages query of the room the poll was sent for; the
\* query of the room that is open is then fetched again
PollRespond(k) ==
    /\ k \in DOMAIN client.polls
    /\ isAuthenticated(Viewer)
    /\ LET poll == client.polls[k]
       IN  \E res \in getLatestMessages(poll.room, poll.since) :
              /\ client' = [client EXCEPT
                               !.polls = RemoveAt(@, k),
                               !.fetching =
                                   IF Len(res) > 0 /\ poll.room = client.room
                                   THEN TRUE ELSE @]
              /\ last' = Step("poll", Viewer, poll.room, 200,
                              [since |-> poll.since, found |-> Len(res)],
                              <<>>)
    /\ UNCHANGED <<users, sessions, rooms, roomMembers, nextMemberId,
                   messages, now, pc, req>>

PollResponds == \E k \in DOMAIN client.polls : PollRespond(k)

\* the user selects another of their rooms in the sidebar, one whose
\* messages query has no data yet: ChatArea is rendered again with the new
\* currentRoom, the messages query of that room is mounted and fetched,
\* lastMessageTime keeps its value, the polling effect is run again (the
\* old interval is cleared, requests already sent are not aborted)
SwitchRoom(r) ==
    /\ client.room # 0 /\ r # client.room
    /\ r \in DOMAIN getUserRooms(Viewer)
    /\ r \notin client.visited
    /\ client' = [client EXCEPT !.room = r, !.data = <<>>,
                                !.fetching = TRUE,
                                !.visited = @ \cup {r}]
    /\ last' = Step("switch room", Viewer, r, 0, NoArgs, <<>>)
    /\ UNCHANGED <<users, sessions, rooms, roomMembers, nextMemberId,
                   messages, now, pc, req>>

(* --------------------------- MessageInput ----------------------------- *)
IsSpace(c) == c = " "

\* String.prototype.trim: the text from its first to its last character
\* that is not white space, empty when there is none
Trim(text) ==
    LET kept == {i \in DOMAIN text : ~IsSpace(text[i])}
    IN  IF kept = {} THEN <<>>
        ELSE LET first == CHOOSE i \in kept : \A j \in kept : i <= j
                 final == CHOOSE i \in kept : \A j \in kept : j <= i
             IN  SubSeq(text, first, final)

\* onChange of the input, which is disabled while a send is pending
TypeMessage(text) ==
    /\ client.room # 0 /\ ~client.pending
    /\ text # client.message
    /\ client' = [client EXCEPT !.message = text]
    /\ last' = Step("type", Viewer, client.room, 0, NoArgs, <<>>)
    /\ UNCHANGED <<users, sessions, rooms, roomMembers, nextMemberId,
                   messages, now, pc, req>>

\* variant of SubmitMessage: isPending is not looked at
SubmitMessageWhilePending ==
    /\ client.room # 0
    /\ IF Trim(client.message) = <<>>
       THEN /\ UNCHANGED client
            /\ last' = Step("submit", Viewer, client.room, 0,
                            [issued |-> FALSE], <<>>)
       ELSE /\ client' = [client EXCEPT
                              !.pending = TRUE,
                              !.sends = Append(@,
                                  [room |-> client.room,
                                   content |-> Trim(client.message)])]
            /\ last' = Step("submit", Viewer, client.room, 0,
                            [issued |-> TRUE], <<>>)
    /\ UNCHANGED <<users, sessions, rooms, roomMembers, nextMemberId,
                   messages, now, pc, req>>

\* handleSubmit: nothing when the trimmed message is empty or a send is
\* pending, else sendMessageMutation.mutate(message.trim())
SubmitMessage ==
    /\ client.room # 0
    /\ IF Trim(client.message) = <<>> \/ client.pending
       THEN /\ UNCHANGED client
            /\ last' = Step("submit", Viewer, client.room, 0,
                            [issued |-> FALSE], <<>>)
       ELSE /\ client' = [client EXCEPT
                              !.pending = TRUE,
                              !.sends = Append(@,
                                  [room |-> client.room,
                                   content |-> Trim(client.message)])]
            /\ last' = Step("submit", Viewer, client.room, 0,
                            [issued |-> TRUE], <<>>)
    /\ UNCHANGED <<users, sessions, rooms, roomMembers, nextMemberId,
                   messages, now, pc, req>>

\* what apiRequest makes of a response: statuses outside 2xx are thrown
ResponseOk(status) == status \in 200..299

SendStatuses == {201, 400, 401, 500}

\* the k-th send request gets its response. onSuccess: the messages query
\* of the request's room is invalidated (and fetched again when that room
\* is open) and the message state is cleared; onError: the message state
\* is kept
SendResponds(k, status) ==
    /\ k \in DOMAIN client.sends
    /\ client' = [client EXCEPT
                     !.sends = RemoveAt(@, k),
                     !.pending = Len(client.sends) > 1,
                     !.message = IF ResponseOk(status) THEN <<>> ELSE @,
                     !.fetching =
                         IF ResponseOk(status)
                            /\ client.sends[k].room = client.room
                         THEN TRUE ELSE @]
    /\ last' = Step(IF ResponseOk(status) THEN "send success"
                    ELSE "send failure",
                    Viewer, client.sends[k].room, status,
                    [content |-> client.sends[k].content], <<>>)
    /\ UNCHANGED <<users, sessions, rooms, roomMembers, nextMemberId,
                   messages, now, pc, req>>

(* --------------------------- specification ---------------------------- *)
\* messages not present at start
NewMessages == {i \in DOMAIN messages : messages[i].content \in Contents}

\* rooms and memberships
NextRooms ==
    \/ \E u \in UserIds : Login(u)
    \/ \E u \in UserIds, body \in RoomBodies : CreateRoomInsert(u, body)
    \/ \E u \in UserIds : CreateRoomInsertFails(u)
    \/ \E u \in UserIds : CreateRoomJoin(u)
    \/ \E u \in UserIds : CreateRoomJoinFails(u)
    \/ \E u \in UserIds, param \in RoomIdParams : JoinRoute(u, param)
    \/ \E u \in UserIds, param \in RoomIdParams : LeaveRoute(u, param)

\* listing rooms and members
NextLists ==
    \/ \E u \in UserIds : GetUserRoomsRoute(u)
    \/ \E u \in UserIds : GetAllRoomsRoute(u)
    \/ \E u \in UserIds, param \in RoomIdParams : GetMembersRoute(u, param)

\* listing messages
NextQuery ==
    \E u \in UserIds, param \in RoomIdParams, lp \in LimitParams,
       op \in OffsetParams, since \in SinceParams :
       /\ since = NoSince \/ (lp = <<>> /\ op = <<>>)
       /\ GetMessagesRoute(u, param, lp, op, since)

\* sending messages
NextSend ==
    \/ Tick
    \/ \E u \in UserIds, param \in SendRoomIdParams, body \in MessageBodies :
          /\ Cardinality(NewMessages) < MaxNewMessages
          /\ SendMessageInsert(u, param, body)
    \/ \E u \in UserIds : SendMessageRefetch(u)

\* sending messages, the insert statements of different requests overlapping
InFlight == {u \in UserIds : pc[u] = "sendMessage_insert"}

NextRace ==
    \/ Tick
    \/ \E u \in UserIds, param \in SendRoomIdParams, body \in MessageBodies :
          /\ Cardinality(NewMessages) + Cardinality(InFlight)
                < MaxNewMessages
          /\ SendMessageStart(u, param, body)
    \/ \E u \in UserIds : SendMessageRow(u)
    \/ \E u \in UserIds : SendMessageRefetch(u)

\* the number of rows inserted so far
RowsInserted == Len(rooms) + (nextMemberId - 1) + Len(messages)

\* the routes that write, with a session, and every route without one
NextServer ==
    \/ \E u \in UserIds : Login(u)
    \/ \E u \in UserIds, route \in Routes : Unauthorized(u, route)
    \/ \E u \in UserIds, body \in RoomBodies :
          /\ RowsInserted < MaxServerRows \/ ~RoomDataAccepted(body)
          /\ CreateRoomInsert(u, body)
    \/ \E u \in UserIds : CreateRoomInsertFails(u)
    \/ \E u \in UserIds : CreateRoomJoin(u)
    \/ \E u \in UserIds : CreateRoomJoinFails(u)
    \/ \E u \in UserIds, param \in RoomIdParams :
          /\ RowsInserted < MaxServerRows
                \/ getRoomById(parseInt(param)) = {}
          /\ JoinRoute(u, param)
    \/ \E u \in UserIds, param \in RoomIdParams : LeaveRoute(u, param)
    \/ \E u \in UserIds, param \in RoomIdParams, body \in MessageBodies :
          /\ RowsInserted < MaxServerRows
                \/ isNaN(parseInt(param)) \/ body.content = Undefined
          /\ SendMessageInsert(u, param, body)
    \/ \E u \in UserIds : SendMessageRefetch(u)

\* the message input of one browser
NextInput ==
    \/ \E text \in TypedTexts : TypeMessage(text)
    \/ Len(client.sends) < MaxSends /\ SubmitMessage
    \/ \E k \in DOMAIN client.sends, status \in SendStatuses :
          SendResponds(k, status)
    \/ JoinRoute(Viewer, <<"2">>)
    \/ \E r \in DOMAIN rooms : SwitchRoom(r)

\* since-polls of room 1 by one user while the other sends messages to it
PollSinceParams == {0, 1000}

NextGap ==
    \/ Tick
    \/ \E u \in UserIds \ {Viewer} :
          /\ Cardinality(NewMessages) < MaxNewMessages
          /\ SendMessageInsert(u, <<"1">>,
                               [content |-> "hi", userId |-> Undefined])
    \/ \E u \in UserIds \ {Viewer} : SendMessageRefetch(u)
    \/ \E since \in PollSinceParams :
          GetMessagesRoute(Viewer, <<"1">>, <<>>, <<>>, since)

\* one browser keeps room 1 open and polls while the other user sends
NextClient ==
    \/ Tick
    \/ \E u \in UserIds \ {Viewer}, param \in RoomIdParams,
          body \in MessageBodies :
          /\ Cardinality(NewMessages) < MaxNewMessages
          /\ SendMessageInsert(u, param, body)
    \/ \E u \in UserIds \ {Viewer} : SendMessageRefetch(u)
    \/ QueryRespond
    \/ Len(client.polls) < MaxPolls /\ PollTimer
    \/ PollResponds
    \/ JoinRoute(Viewer, <<"2">>)
    \/ \E r \in DOMAIN rooms : SwitchRoom(r)

Next == NextRooms \/ NextLists \/ NextQuery \/ NextSend \/ NextRace
           \/ NextServer \/ NextClient \/ NextGap \/ NextInput

\* the whole server
System == Init /\ [][Next]_vars

\* rooms and memberships, from the empty database
Spec == Init /\ [][NextRooms]_vars

\* rooms and memberships and their listings, from the empty database
SpecLists == Init /\ [][NextRooms \/ NextLists]_vars

\* a database in which both users have logged in, A has created room 1
\* and sent a message to it, and the sessions have ended since
InitServer ==
    /\ users = UserIds
    /\ sessions = {}
    /\ rooms = <<[id |-> 1, name |-> "general", createdBy |-> "A"]>>
    /\ roomMembers = {[id |-> 1, userId |-> "A", roomId |-> 1]}
    /\ nextMemberId = 2
    /\ messages = <<BulkMessage(1, "ms")>>
    /\ now = BulkTime(1, "ms")
    /\ pc = [u \in UserIds |-> "idle"]
    /\ req = [u \in UserIds |-> NoReq]
    /\ last = Step("init", "", 0, 0, NoArgs, <<>>)
    /\ client = NoClient

\* the writing routes and the authentication gate, on a small database
SpecServer == InitServer /\ [][NextServer]_vars

\* the message queries, over databases that already hold rooms and messages
SpecQuery == InitQuery /\ [][NextQuery]_vars

\* sending messages, to rooms without and with a long history
SpecSend == InitSend /\ [][NextSend]_vars

\* sending messages concurrently, to a room without a history
InitRace == InitBulk({0}, {"half"}) /\ client = NoClient

SpecRace == InitRace /\ [][NextRace]_vars

\* since-polls of a room that holds LatestLimit messages, of which the two
\* oldest have the same createdAt, and grows
InitGap == InitBulk({MaxBulk - 1}, {"tie"}) /\ client = NoClient

SpecGap == InitGap /\ [][NextGap]_vars

\* ChatArea and its MessageInput are shown for room 1, the messages query
\* has been answered
InitInput ==
    /\ InitBulk({0}, {"half"})
    /\ client = [NoClient EXCEPT !.room = 1, !.visited = {1}]

SpecInput == InitInput /\ [][NextInput]_vars

\* ChatArea has just been shown for room 1, which holds no message or one
InitClient ==
    /\ InitBulk({0, 1}, {"half"})
    /\ client = [NoClient EXCEPT !.room = 1, !.fetching = TRUE,
                                 !.visited = {1}]

\* the timer keeps firing and the server keeps answering
SpecClient ==
    /\ InitClient /\ [][NextClient]_vars
    /\ WF_vars(PollTimer)
    /\ WF_vars(PollResponds)
    /\ WF_vars(QueryRespond)

(* ------------------------------ claims -------------------------------- *)
RoomIds == 1..(MaxRooms + 1)

\* C1: right after POST /api/rooms answers 201 for user U and room R, a
\* membership row for (U, R) exists and R is among getUserRooms(U).
C1_CreatorIsMember ==
    (last.op = "POST /api/rooms" /\ last.status = 201) =>
        /\ last.roomId \in DOMAIN rooms
        /\ rooms[last.roomId].createdBy = last.user
        /\ MemberRows(last.user, last.roomId) # {}
        /\ last.roomId \in DOMAIN getUserRooms(last.user)

C1_Witness ==
    /\ last.op = "POST /api/rooms" /\ last.status = 201
    /\ last.roomId = 2
    /\ Cardinality(roomMembers) >= 2

\* C2: when a createRoom call has ended, however it ended, the room row
\* and the creator's membership row were both inserted or neither was.
C2_RoomAndMembershipTogether ==
    last.op = "POST /api/rooms" =>
        (last.roomId \in DOMAIN rooms <=>
            MemberRows(last.user, last.roomId) # {})

\* C3: after joinRoom(U, R) has succeeded there is exactly one membership
\* row for (U, R), also when a row for the pair existed before the call.
C3_JoinLeavesOneRow ==
    (last.op = "POST join" /\ last.status = 200) =>
        Cardinality(MemberRows(last.user, last.roomId)) = 1

\* C4: the membership table never holds two rows for one (user, room) pair.
C4_MembershipPairsUnique ==
    \A u \in UserIds, r \in RoomIds : Cardinality(MemberRows(u, r)) <= 1

\* C5: leaveRoom(U, R) with no membership row for (U, R) changes no
\* table, and the leave handler answers 200.
C5_LeaveAbsentIsNoOp ==
    [][(/\ last'.op = "POST leave"
        /\ ~isNaN(last'.roomId)
        /\ MemberRows(last'.user, last'.roomId) = {})
       => (/\ last'.status = 200
           /\ roomMembers' = roomMembers
           /\ rooms' = rooms
           /\ messages' = messages)]_vars

C5_Witness ==
    /\ last.op = "POST leave" /\ last.status = 200
    /\ last.args.rowsBefore = 0
    /\ \E m \in roomMembers : m.userId = last.user

\* the stored rows of room r created after the instant since
NewerRows(r, since) ==
    SelectSeq(messages, LAMBDA m : /\ m.roomId = r /\ m.userId \in users
                                   /\ m.createdAt > since)

\* C6: getLatestMessages(R, t) returns only messages of room R whose
\* createdAt is after t, all of them when they are at most 50, and never
\* more than 50.
C6_SinceIsStrict ==
    (last.op = "GET messages" /\ last.status = 200
        /\ last.args.since # NoSince) =>
        LET res == last.body
            newer == NewerRows(last.roomId, last.args.since)
        IN  /\ \A k \in DOMAIN res :
                  /\ res[k].roomId = last.roomId
                  /\ res[k].createdAt > last.args.since
            /\ Len(res) <= LatestLimit
            /\ Len(newer) <= LatestLimit =>
                  \A n \in DOMAIN newer :
                      \E k \in DOMAIN res : res[k].id = newer[n].id

\* C7: without since, getLatestMessages has the same possible results as
\* getMessages with the default limit and offset.
C7_NoSinceIsDefaultPage ==
    \A r \in RoomIds :
        getLatestMessages(r, NoSince) =
            getMessages(r, DefaultLimit, DefaultOffset)

C7_Witness ==
    /\ last.op = "GET messages" /\ last.status = 200
    /\ last.args.limit = DefaultLimit
    /\ last.args.offset = DefaultOffset
    /\ last.args.since = NoSince
    /\ Len(JoinedMessages(last.roomId)) > DefaultLimit
    /\ Len(last.body) = DefaultLimit
    /\ last.body \in getLatestMessages(last.roomId, NoSince)

\* C8: the list returned by getMessages(R, limit, offset) is in ascending
\* createdAt order and holds messages of room R only.
C8_ListIsAscending ==
    (last.op = "GET messages" /\ last.status = 200
        /\ last.args.since = NoSince) =>
        LET res == last.body
        IN  /\ \A i, j \in DOMAIN res :
                  i < j => res[i].createdAt <= res[j].createdAt
            /\ \A k \in DOMAIN res : res[k].roomId = last.roomId

C8_Witness ==
    /\ last.op = "GET messages" /\ last.status = 200
    /\ last.args.since = NoSince
    /\ last.args.offset = 1
    /\ Len(last.body) = 2
    /\ last.body[1].createdAt < last.body[2].createdAt

\* C9: in every possible result of getMessages and of getLatestMessages,
\* of two messages with equal createdAt the one with the smaller id comes
\* first.
C9_TiesInIdOrder ==
    \A r \in RoomIds :
        \A res \in getMessages(r, DefaultLimit, DefaultOffset)
                     \cup getLatestMessages(r, 0) :
            \A i, j \in DOMAIN res :
                (i < j /\ res[i].createdAt = res[j].createdAt)
                    => res[i].id < res[j].id

\* the rows of the room of message m created at or after m, m included
NotOlder(m) ==
    SelectSeq(messages, LAMBDA x : /\ x.roomId = m.roomId
                                   /\ x.userId \in users
                                   /\ x.createdAt >= m.createdAt)

\* C10: a message created with content C by user U in room R is in every
\* possible result of the following getMessages(R) with content C, author U
\* and room R; it stays in the default page, unchanged, while it is among
\* the 50 newest messages of the room.
C10_RoundTrip ==
    /\ last.op = "createMessage" =>
          \A res \in getMessages(last.roomId, DefaultLimit, DefaultOffset) :
              \E k \in DOMAIN res :
                  /\ res[k].id = last.args.msgId
                  /\ res[k].content = last.args.content
                  /\ res[k].userId = last.user
                  /\ res[k].roomId = last.roomId
    /\ \A r \in RoomIds :
          LET results == getMessages(r, DefaultLimit, DefaultOffset)
          IN  \A i \in NewMessages :
                  (messages[i].roomId = r /\ messages[i].userId \in users
                      /\ Len(NotOlder(messages[i])) <= DefaultLimit) =>
                      \A res \in results :
                          \E k \in DOMAIN res : res[k] = Selected(messages[i])

C10_Witness ==
    /\ last.op = "createMessage"
    /\ last.args.content = "there"
    /\ Len(JoinedMessages(last.roomId)) > DefaultLimit

\* position of the message with id i in the list res, 0 when it is absent
PositionOf(res, i) ==
    IF \E k \in DOMAIN res : res[k].id = i
    THEN CHOOSE k \in DOMAIN res : res[k].id = i
    ELSE 0

\* C11: of two messages of one room, the first created before the creation
\* of the second began, every possible result of getMessages(R, 50) that
\* contains both lists the first before the second.
C11_SendOrderKept ==
    \A r \in RoomIds :
        LET results == getMessages(r, DefaultLimit, DefaultOffset)
        IN  \A i, j \in NewMessages :
                (i < j /\ messages[i].roomId = r /\ messages[j].roomId = r) =>
                    \A res \in results :
                        (PositionOf(res, i) > 0 /\ PositionOf(res, j) > 0) =>
                            PositionOf(res, i) < PositionOf(res, j)

\* the users that have a membership row for room r
MembersOf(r) == {m.userId : m \in {x \in roomMembers : x.roomId = r}}

\* C12: the memberCount that getRooms reports for a room is the number of
\* distinct users that have a membership row for the room.
C12_MemberCountIsDistinctUsers ==
    (last.op = "GET /api/rooms/all" /\ last.status = 200) =>
        /\ DOMAIN last.body = DOMAIN rooms
        /\ \A r \in DOMAIN rooms :
              last.body[r].memberCount = Cardinality(MembersOf(r))

\* C13: every stored message names a room that has a row in rooms and a
\* user that has a row in users.
C13_MessagesReferToRows ==
    \A i \in DOMAIN messages :
        /\ messages[i].roomId \in DOMAIN rooms
        /\ messages[i].userId \in users

\* C14: of two stored messages, the one with the smaller id has the
\* createdAt that is not later.
C14_CreatedAtFollowsId ==
    \A i, j \in DOMAIN messages :
        i < j => messages[i].createdAt <= messages[j].createdAt

\* s is an initial part of t
IsPrefix(s, t) ==
    /\ Len(s) <= Len(t)
    /\ \A i \in DOMAIN s : t[i] = s[i]

\* C15: every step keeps every stored room and message as it is, new rows
\* only being added after them; joining, leaving and logging in leave
\* rooms and messages unchanged.
C15_AppendOnly ==
    [][/\ IsPrefix(rooms, rooms')
       /\ IsPrefix(messages, messages')
       /\ last'.op \in {"POST join", "POST leave", "login"} =>
             (rooms' = rooms /\ messages' = messages)]_vars

C15_Witness ==
    /\ last.op = "POST leave" /\ last.status = 200
    /\ last.args.rowsBefore = 1
    /\ Len(messages) = 2
    /\ messages[2].content = "there"
    /\ messages[1] = BulkMessage(1, "ms")

\* C16: getUserRooms(U) returns exactly the rooms U has a membership row
\* for, each once; after leaveRoom(U, R) no row for (U, R) is left and
\* neither getUserRooms(U) returns R nor getRoomMembers(R) returns U.
C16_UserRoomsExact ==
    /\ (last.op = "GET /api/rooms" /\ last.status = 200) =>
          /\ DOMAIN last.body =
                {r \in DOMAIN rooms : MemberRows(last.user, r) # {}}
          /\ \A r \in DOMAIN last.body : last.body[r] = 1
    /\ (last.op = "POST leave" /\ last.status = 200) =>
          /\ MemberRows(last.user, last.roomId) = {}
          /\ last.roomId \notin DOMAIN getUserRooms(last.user)
          /\ last.user \notin DOMAIN getRoomMembers(last.roomId)

\* C17: a request of a user without a session is answered 401 with an
\* empty body and changes no table; every room, message and membership
\* row that a step inserts or deletes carries the user id of the session
\* the request came with.
C17_SessionGate ==
    [][/\ (/\ last'.user \in UserIds
           /\ last'.op # "login"
           /\ pc[last'.user] = "idle"
           /\ last'.user \notin sessions) =>
             /\ last'.status = 401
             /\ last'.body = <<>>
             /\ UNCHANGED <<users, rooms, roomMembers, messages>>
       /\ Len(rooms') > Len(rooms) =>
             rooms'[Len(rooms')].createdBy = last'.user
       /\ Len(messages') > Len(messages) =>
             messages'[Len(messages')].userId = last'.user
       /\ \A m \in (roomMembers' \ roomMembers)
                     \cup (roomMembers \ roomMembers') :
             m.userId = last'.user]_vars

C17_Witness ==
    /\ last.status = 401 /\ last.op = "POST leave"
    /\ last.user \notin sessions
    /\ MemberRows(last.user, 1) # {}
    /\ Len(rooms) = 2
    /\ rooms[2].createdBy \in sessions

\* the text s is a number: one or more digits
IsNumeric(s) == Len(s) > 0 /\ \A i \in DOMAIN s : IsDigit(s[i])

\* the step record l is of a handler with a roomId path parameter
HasParam(l) ==
    /\ l.op \in {"POST join", "POST leave", "GET messages", "POST messages",
                 "GET members", "createMessage", "createMessage_start"}
    /\ "param" \in DOMAIN l.args

\* C18: a request whose roomId path parameter is not a number is answered
\* 400 and changes no table.
C18_NonNumericRoomIdRejected ==
    [][(HasParam(last') /\ ~IsNumeric(last'.args.param)) =>
          /\ last'.status = 400
          /\ UNCHANGED <<rooms, roomMembers, messages>>]_vars

\* C19: a request whose body lacks a required field, or has a name longer
\* than the column, is answered with a 4xx status and stores nothing.
C19_ValidationIsClientError ==
    [][("invalid" \in DOMAIN last'.args) =>
          /\ last'.status \in 400..499
          /\ UNCHANGED <<rooms, roomMembers, messages>>]_vars

\* the message with id i is in the list that ChatArea shows
Displayed(i) == \E k \in DOMAIN client.data : client.data[k].id = i

\* C20: every message that is created in the room ChatArea has open is,
\* some time later, in the list ChatArea shows.
C20_EventuallyVisible ==
    \A i \in 1..(1 + MaxNewMessages) :
        (/\ i \in NewMessages
         /\ messages[i].roomId = client.room
         /\ messages[i].userId \in users) ~> Displayed(i)

\* C21: ChatArea never has more than one poll request awaiting its
\* response.
C21_OnePollInFlight == Len(client.polls) <= 1

\* C22: whenever the timer sends a poll for the open room, its since value
\* is the createdAt of the last message of the list ChatArea shows for that
\* room.
C22_CursorIsLastDisplayed ==
    (last.op = "poll timer" /\ last.args.since # NoSince) =>
        /\ Len(client.data) > 0
        /\ client.data[Len(client.data)].roomId = last.roomId
        /\ client.data[Len(client.data)].createdAt = last.args.since

\* C23: the answer to a poll never changes the list ChatArea shows or the
\* cursor; an empty answer changes nothing but the set of outstanding
\* polls; an answer to a poll that was sent for a room no longer open, or
\* with a cursor that a later fetch has replaced since, does not invalidate
\* the messages query of the open room.
C23_StalePollsDiscarded ==
    [][last'.op = "poll" =>
          /\ client'.data = client.data
          /\ client'.lastMessageTime = client.lastMessageTime
          /\ client'.room = client.room
          /\ last'.args.found = 0 => client'.fetching = client.fetching
          /\ (\/ last'.roomId # client.room
              \/ last'.args.since # client.lastMessageTime) =>
                 client'.fetching = client.fetching]_vars

\* the rows of room r among the first n rows of the messages table that
\* were created after the instant since
NewerRowsAsOf(n, r, since) ==
    SelectSeq(messages, LAMBDA m : /\ m.id <= n /\ m.roomId = r
                                   /\ m.userId \in users
                                   /\ m.createdAt > since)

\* the sizes the messages table has had so far
TableSizes == (Len(messages) - Cardinality(NewMessages))..Len(messages)

\* C24: when more than 50 messages of a room are newer than since, the
\* since-poll answers 50 of them, oldest first, none of the omitted ones
\* being newer than a returned one; and no since-poll made afterwards with
\* the createdAt of the newest returned message as since returns an
\* omitted message.
C24_CapOmitsOldestForGood ==
    /\ (last.op = "GET messages" /\ last.status = 200
           /\ last.args.since # NoSince) =>
          last.body \in LatestAsOf(Len(messages), last.roomId,
                                   last.args.since)
    /\ \A n \in TableSizes, since \in PollSinceParams :
          LET r == 1
              newer == NewerRowsAsOf(n, r, since)
          IN  Len(newer) > LatestLimit =>
                \A res \in LatestAsOf(n, r, since) :
                    LET omitted == {k \in DOMAIN newer :
                                      PositionOf(res, newer[k].id) = 0}
                    IN  /\ Len(res) = LatestLimit
                        /\ \A i, j \in DOMAIN res :
                              i < j => res[i].createdAt <= res[j].createdAt
                        /\ \A i \in DOMAIN res :
                              \E k \in DOMAIN newer :
                                  res[i] = Selected(newer[k])
                        /\ \A k \in omitted, i \in DOMAIN res :
                              newer[k].createdAt
                                  <= messages[res[i].id].createdAt
                        /\ \A res2 \in getLatestMessages(
                                            r, res[Len(res)].createdAt) :
                              \A k \in omitted :
                                  PositionOf(res2, newer[k].id) = 0

C24_Witness ==
    /\ last.op = "GET messages" /\ last.status = 200
    /\ last.args.since = 0
    /\ Len(last.body) = LatestLimit
    /\ Cardinality(NewMessages) = MaxNewMessages
    /\ Len(NewerRowsAsOf(Len(messages), 1, 0)) > LatestLimit + 1
    /\ PositionOf(last.body, 1) = 0

\* the stored rows of room r that getMessages joins to a user
RoomRows(r) ==
    {i \in DOMAIN messages :
        messages[i].roomId = r /\ messages[i].userId \in users}

\* the value the route is to use for a limit or offset parameter: the
\* default when the text is absent, not a number, or 0
ParamOrDefault(text, default) ==
    IF ~IsNumeric(text) \/ parseInt(text) = 0 THEN default
    ELSE parseInt(text)

\* C25: the answer of GET messages without since is the page of the
\* room's messages at positions offset+1 .. offset+limit of the order by
\* descending createdAt, oldest first, where limit and offset are those of
\* the query string, or 50 and 0 when the parameter is missing, not a
\* number, or 0.
C25_PageOfDescendingOrder ==
    (last.op = "GET messages" /\ last.status = 200
        /\ last.args.since = NoSince) =>
        LET res == last.body
            rows == RoomRows(last.roomId)
            limit == ParamOrDefault(last.args.limitParam, DefaultLimit)
            offset == ParamOrDefault(last.args.offsetParam, DefaultOffset)
            available == IF Cardinality(rows) > offset
                         THEN Cardinality(rows) - offset ELSE 0
            newer(i) == {j \in rows :
                           messages[j].createdAt > messages[i].createdAt}
            notOlder(i) == {j \in rows :
                              messages[j].createdAt >= messages[i].createdAt}
        IN  /\ Len(res) = Min(limit, available)
            /\ \A k \in DOMAIN res :
                  /\ res[k].id \in rows
                  /\ res[k] = Selected(messages[res[k].id])
                  /\ LET p == offset + Len(res) - k + 1
                     IN  /\ Cardinality(newer(res[k].id)) < p
                         /\ p <= Cardinality(notOlder(res[k].id))
            /\ \A k, l \in DOMAIN res : k # l => res[k].id # res[l].id

\* C26: a join request with a numeric roomId that has no room row is
\* answered 404 and inserts no membership row; every membership row names
\* a room that has a row.
C26_JoinUnknownRoomIs404 ==
    [][/\ (/\ last'.op = "POST join"
           /\ IsNumeric(last'.args.param)
           /\ getRoomById(last'.roomId) = {}) =>
             /\ last'.status = 404
             /\ roomMembers' = roomMembers
             /\ nextMemberId' = nextMemberId
       /\ \A m \in roomMembers' : m.roomId \in DOMAIN rooms']_vars

C26_Witness ==
    /\ last.op = "POST join" /\ last.status = 404
    /\ last.args.param = <<"2">>
    /\ Len(rooms) = 1
    /\ \E m \in roomMembers : m.roomId = 1 /\ m.userId # rooms[1].createdBy

\* C27: the 201 answer of POST messages carries the message that the
\* request itself created: its id, content and author.
C27_AnswerIsOwnMessage ==
    (last.op = "POST messages" /\ last.status = 201) =>
        /\ Len(last.body) = 1
        /\ last.body[1].id = last.args.msgId
        /\ last.body[1].content = messages[last.args.msgId].content
        /\ last.body[1].userId = last.user

\* the text inner is the text outer without the white space at its ends
IsTrimOf(inner, outer) ==
    /\ inner # <<>> => ~IsSpace(inner[1]) /\ ~IsSpace(inner[Len(inner)])
    /\ \E a \in 0..Len(outer) :
          /\ a + Len(inner) <= Len(outer)
          /\ \A i \in DOMAIN outer :
                IF i > a /\ i <= a + Len(inner)
                THEN outer[i] = inner[i - a]
                ELSE IsSpace(outer[i])

\* C28: at most one send request awaits its response and none has empty
\* content; a submit while a send is pending, or with a message that is
\* empty or white space only, issues no request; the content of a request
\* is the typed text trimmed; besides typing, the message text changes only
\* by being cleared on a successful send, and a failed send leaves it as
\* it is.
C28_OneSendTrimmedNeverEmpty ==
    [][/\ Len(client'.sends) <= 1
       /\ \A k \in DOMAIN client'.sends : client'.sends[k].content # <<>>
       /\ (/\ last'.op = "submit"
           /\ \/ client.pending
              \/ \A i \in DOMAIN client.message :
                     IsSpace(client.message[i])) =>
             client'.sends = client.sends
       /\ Len(client'.sends) > Len(client.sends) =>
             /\ last'.op = "submit"
             /\ IsTrimOf(client'.sends[Len(client'.sends)].content,
                         client.message)
             /\ client'.sends[Len(client'.sends)].room = client.room
             /\ client'.message = client.message
       /\ client'.message # client.message =>
             \/ last'.op = "type"
             \/ last'.op = "send success" /\ client'.message = <<>>
       /\ last'.op = "send failure" => client'.message = client.message]_vars

C28_Witness ==
    /\ last.op = "submit" /\ ~last.args.issued
    /\ client.pending
    /\ Len(client.sends) = 1
    /\ client.sends[1].content = <<"h", "i">>
    /\ client.message = <<" ", "h", "i", " ">>

====
